---- MODULE Spec2Model ----
(***************************************************************************)
(* A model of packages/react-aria-components/src/Menu.tsx: MenuTrigger,    *)
(* Menu, MenuInner, MenuSection and MenuItemInner.                         *)
(*                                                                         *)
(* A component is modelled by an operator that computes what one call of   *)
(* the component function returns; an action is one event (a state change  *)
(* of a hook, a new realized collection, a resize notification) together   *)
(* with the re-render React performs for it.  A thrown Error is a record   *)
(* whose field `thrown` holds the message.                                 *)
(*                                                                         *)
(* Optional values (undefined | v) are sequences: <<>> is undefined/null   *)
(* and <<v>> is the value v.                                               *)
(***************************************************************************)
EXTENDS Integers, Sequences, FiniteSets, TLC

\* ------------------------------------------------------------- bounds
\* Largest offsetWidth the trigger element takes.
MaxWidth == 2
\* Resize notifications counted (the counter stops there, delivery does not).
MaxResizes == 2
\* Top-level nodes of a realized collection.
MaxTop == 2
\* Children of one section node.
MaxChildren == 1

None == <<>>
Some(v) == <<v>>

VARIABLES
  \* MenuTrigger
  isOpen,          \* the boolean held by useMenuTriggerState
  mounted,         \* "initial" | "attached" | "detached": what ref.current is
  offsetWidth,     \* the trigger element's offsetWidth
  resizePending,   \* a resize notification is queued for onResize
  buttonWidth,     \* useState<string | null>: None or Some("<n>px")
  resizeEvents,    \* resize notifications handled so far (capped)
  triggerOut,      \* what MenuTrigger's latest render returned
  \* Menu
  collection,      \* the collection useCollection returned to the latest render
  portal,          \* whether useCollection returns a portal placeholder
  everNonEmpty,    \* some earlier render saw a non-empty collection
  menuOut,         \* what the latest render of Menu produced
  \* MenuItemInner
  href,            \* item.props.href: None or Some(string)
  selectionMode,   \* state.selectionManager.selectionMode
  itemStates,      \* the states useMenuItem returns
  isFocusVisible,  \* useFocusRing
  pointerOver,     \* the pointer is over the item
  itemOut          \* what MenuItemInner's latest render returned

triggerVars == <<isOpen, mounted, offsetWidth, resizePending, buttonWidth, resizeEvents, triggerOut>>
menuVars == <<collection, portal, everNonEmpty, menuOut>>
itemVars == <<href, selectionMode, itemStates, isFocusVisible, pointerOver, itemOut>>
vars == <<triggerVars, menuVars, itemVars>>

\* ============================================================ MenuTrigger

Widths == 0..MaxWidth

\* ref.current.offsetWidth + 'px'
Px(w) == ToString(w) \o "px"

\* ref.current is an element
RefCurrent(m) == m = "attached"

\* The state object useMenuTriggerState returns in a render.
useMenuTriggerState(open) == [isOpen |-> open]

\* onResize: if (ref.current) setButtonWidth(ref.current.offsetWidth + 'px')
onResize_Once(m, w, bw) == IF RefCurrent(m) /\ bw = None THEN Some(Px(w)) ELSE bw
onResize(m, w, bw) == IF RefCurrent(m) THEN Some(Px(w)) ELSE bw

\* <PressResponder ... isPressed={state.isOpen}>
PressResponderIsPressed_Never(state) == FALSE
PressResponderIsPressed(state) == state.isOpen

\* What MenuTrigger returns: the Provider's values and the PressResponder's props.
MenuTrigger(open, bw) ==
  LET state == useMenuTriggerState(open) IN
  [ overlayTriggerState |-> state,
    popover |-> [trigger |-> "MenuTrigger", placement |-> "bottom start", triggerWidth |-> bw],
    isPressed |-> PressResponderIsPressed(state) ]

TriggerInit ==
  /\ isOpen = FALSE
  /\ mounted = "initial"
  /\ offsetWidth = 0
  /\ resizePending = FALSE
  /\ buttonWidth = None
  /\ resizeEvents = 0
  /\ triggerOut = MenuTrigger(FALSE, None)

\* state.open(), state.close(), state.toggle(), each followed by the re-render.
SetOpen(b) ==
  /\ isOpen' = b
  /\ triggerOut' = MenuTrigger(b, buttonWidth)
  /\ UNCHANGED <<mounted, offsetWidth, resizePending, buttonWidth, resizeEvents>>
  /\ UNCHANGED <<menuVars, itemVars>>

Open == ~isOpen /\ SetOpen(TRUE)
Close == isOpen /\ SetOpen(FALSE)
Toggle == SetOpen(~isOpen)

\* The trigger's element mounts: ref.current is set, and useResizeObserver starts
\* observing it, which queues a first notification.
Mount ==
  /\ mounted = "initial"
  /\ \E w \in Widths : offsetWidth' = w
  /\ mounted' = "attached"
  /\ resizePending' = TRUE
  /\ UNCHANGED <<isOpen, buttonWidth, resizeEvents, triggerOut>>
  /\ UNCHANGED <<menuVars, itemVars>>

\* The trigger's element goes away; a notification already queued is still delivered.
Unmount ==
  /\ mounted = "attached"
  /\ mounted' = "detached"
  /\ UNCHANGED <<isOpen, offsetWidth, resizePending, buttonWidth, resizeEvents, triggerOut>>
  /\ UNCHANGED <<menuVars, itemVars>>

\* The layout changes the element's width; the observer queues a notification.
ResizeElement ==
  /\ mounted = "attached"
  /\ \E w \in Widths \ {offsetWidth} : offsetWidth' = w
  /\ resizePending' = TRUE
  /\ UNCHANGED <<isOpen, mounted, buttonWidth, resizeEvents, triggerOut>>
  /\ UNCHANGED <<menuVars, itemVars>>

\* The observer calls onResize; the state update re-renders MenuTrigger.
DeliverResize ==
  /\ resizePending
  /\ resizePending' = FALSE
  /\ buttonWidth' = onResize(mounted, offsetWidth, buttonWidth)
  /\ resizeEvents' = IF resizeEvents < MaxResizes THEN resizeEvents + 1 ELSE resizeEvents
  /\ triggerOut' = MenuTrigger(isOpen, buttonWidth')
  /\ UNCHANGED <<isOpen, mounted, offsetWidth>>
  /\ UNCHANGED <<menuVars, itemVars>>

NextTrigger ==
  \/ Open
  \/ Close
  \/ Toggle
  \/ Mount
  \/ Unmount
  \/ ResizeElement
  \/ DeliverResize

\* ================================================================== Menu

NodeTypes == {"section", "separator", "item", "header"}

\* A Node of the collection: key, type and (for a section) its child nodes.
Node(key, type, childNodes) == [key |-> key, type |-> type, childNodes |-> childNodes]

Min(S) == CHOOSE x \in S : \A y \in S : x <= y

\* --- the collection (BaseCollection): size, iteration order, getChildren
Iterate(coll) == coll.top
ChildrenOf(coll) == UNION {{n.childNodes[j] : j \in 1..Len(n.childNodes)} : n \in {coll.top[i] : i \in 1..Len(coll.top)}}
AllNodes(coll) == {coll.top[i] : i \in 1..Len(coll.top)} \cup ChildrenOf(coll)
Size(coll) == Cardinality(AllNodes(coll))
getChildren(coll, key) ==
  LET at == {i \in 1..Len(coll.top) : coll.top[i].key = key}
  IN IF at = {} THEN <<>> ELSE coll.top[Min(at)].childNodes

\* --- results of a render step: an element, or a thrown Error
Returned(el) == [thrown |-> None, el |-> el]
Thrown(msg, el) == [thrown |-> Some(msg), el |-> el]
Element(el, node, children) == [el |-> el, node |-> node, children |-> children]

\* rs[i] is the result of the i-th of a sequence of calls made in order until
\* one throws: the elements made before the throw, the results of the calls
\* made, and the Error (if any).
UntilThrow(rs) ==
  LET bad == {i \in 1..Len(rs) : rs[i].thrown # None}
      stop == IF bad = {} THEN Len(rs) + 1 ELSE Min(bad)
  IN [ thrown |-> IF bad = {} THEN None ELSE rs[stop].thrown,
       els |-> [i \in 1..(stop - 1) |-> rs[i].el],
       calls |-> [i \in 1..(IF bad = {} THEN Len(rs) ELSE stop) |-> rs[i]] ]

\* useCachedChildren({items, children}), given rendered[i] = children(items[i]):
\* the callback's element for every item, in the order of items.
useCachedChildren(rendered) == UntilThrow(rendered)

\* useTreeState({...props, collection, children: undefined})
useTreeState(coll) == [collection |-> coll]

\* <MenuItemInner item={item} />
MenuItemInnerElement(item) == Element("MenuItemInner", item, <<>>)

\* MenuInner's children callback: the switch on item.type.
MenuInnerChild_HeaderAsItem(item) ==
  CASE item.type = "section" -> Returned(Element("MenuSection", item, <<>>))
    [] item.type = "separator" -> Returned(Element("Separator", item, <<>>))
    [] item.type \in {"item", "header"} -> Returned(MenuItemInnerElement(item))
    [] OTHER -> Thrown("Unsupported node type in Menu: " \o item.type, None)
MenuInnerChild(item) ==
  CASE item.type = "section" -> Returned(Element("MenuSection", item, <<>>))
    [] item.type = "separator" -> Returned(Element("Separator", item, <<>>))
    [] item.type = "item" -> Returned(MenuItemInnerElement(item))
    [] OTHER -> Thrown("Unsupported node type in Menu: " \o item.type, None)

\* MenuSection's children callback: the switch on item.type.
MenuSectionChild_SeparatorAsItem(item) ==
  CASE item.type = "header" -> Returned(Element("Header", item, <<>>))
    [] item.type \in {"item", "separator"} -> Returned(MenuItemInnerElement(item))
    [] OTHER -> Thrown("Unsupported element type in Section: " \o item.type, None)
MenuSectionChild(item) ==
  CASE item.type = "header" -> Returned(Element("Header", item, <<>>))
    [] item.type = "item" -> Returned(MenuItemInnerElement(item))
    [] OTHER -> Thrown("Unsupported element type in Section: " \o item.type, None)

\* The items MenuInner iterates: state.collection.
MenuInnerItems_SkipFirst(state) == Tail(Iterate(state.collection))
MenuInnerItems(state) == Iterate(state.collection)

\* The value MenuInner gives MenuStateContext: state.
MenuStateContextValue_Stale(state) == IF menuOut.state # None THEN menuOut.state[1] ELSE state
MenuStateContextValue(state) == state

\* MenuSection: state is read from MenuStateContext; the section element holds
\* one element per child of the section.
MenuSection(state, section) ==
  LET items == getChildren(state.collection, section.key)
      children == useCachedChildren([i \in 1..Len(items) |-> MenuSectionChild(items[i])])
      el == Element("section", section, children.els)
  IN IF children.thrown = None THEN Returned(el) ELSE Thrown(children.thrown[1], el)

\* MenuInner: the container (or the Error its children callback throws) and the
\* tree state it publishes.
MenuInner(coll) ==
  LET state == useTreeState(coll)
      items == MenuInnerItems(state)
      children == useCachedChildren([i \in 1..Len(items) |-> MenuInnerChild(items[i])])
  IN [ thrown |-> children.thrown,
       container |-> [className |-> "react-aria-Menu", children |-> children.els],
       menuState |-> MenuStateContextValue(state) ]

\* The nodes among els that a MenuItemInner element was made for.
ItemsOf(els) == {els[i].node : i \in {j \in 1..Len(els) : els[j].el = "MenuItemInner"}}

\* Menu, and React's render of what it returns: MenuInner when collection.size > 0,
\* then each MenuSection below it in order, then the portal. An Error thrown on
\* the way leaves nothing of the subtree.
MenuRendersInner_Always(coll) == TRUE
MenuRendersInner(coll) == Size(coll) > 0

Menu(coll, prt) ==
  IF MenuRendersInner(coll)
  THEN
    LET inner == MenuInner(coll)
        els == inner.container.children
        RenderElement(e) == IF e.el = "MenuSection" THEN MenuSection(inner.menuState, e.node) ELSE Returned(e)
        below == UntilThrow([i \in 1..Len(els) |-> RenderElement(els[i])])
        made == ItemsOf(inner.container.children)
                  \cup UNION {ItemsOf(below.calls[i].el.children) : i \in 1..Len(below.calls)}
    IN IF inner.thrown # None
       THEN [thrown |-> inner.thrown, containers |-> <<>>, portal |-> FALSE,
             state |-> Some(inner.menuState), made |-> ItemsOf(inner.container.children)]
       ELSE IF below.thrown # None
       THEN [thrown |-> below.thrown, containers |-> <<>>, portal |-> FALSE,
             state |-> Some(inner.menuState), made |-> made]
       ELSE [thrown |-> None,
             containers |-> <<[className |-> inner.container.className, children |-> below.els]>>,
             portal |-> prt, state |-> Some(inner.menuState), made |-> made]
  ELSE [thrown |-> None, containers |-> <<>>, portal |-> prt, state |-> None, made |-> {}]

EmptyCollection == [top |-> <<>>]

MenuInit ==
  /\ collection = EmptyCollection
  /\ portal \in BOOLEAN
  /\ everNonEmpty = FALSE
  /\ menuOut = [thrown |-> None, containers |-> <<>>, portal |-> portal, state |-> None, made |-> {}]

\* useCollection returns coll and Menu renders with it.
RenderWith(coll) ==
  /\ collection' = coll
  /\ everNonEmpty' = (everNonEmpty \/ Size(collection) > 0)
  /\ menuOut' = Menu(coll, portal)
  /\ UNCHANGED <<portal, triggerVars, itemVars>>

UsedKeys(coll) == {coll.top[i].key : i \in 1..Len(coll.top)}
FreshKey(coll) == <<Min({k \in 1..MaxTop : <<k>> \notin UsedKeys(coll)})>>
RemoveAt(s, i) == SubSeq(s, 1, i - 1) \o SubSeq(s, i + 1, Len(s))

\* A node is added at the end of the collection.
AppendNode ==
  /\ Len(collection.top) < MaxTop
  /\ \E t \in NodeTypes :
       RenderWith([top |-> Append(collection.top, Node(FreshKey(collection), t, <<>>))])

\* A node is added at the end of a section.
AppendChild ==
  \E i \in 1..Len(collection.top), t \in NodeTypes :
    LET s == collection.top[i] IN
    /\ s.type = "section"
    /\ Len(s.childNodes) < MaxChildren
    /\ RenderWith([top |-> [collection.top EXCEPT ![i] =
          Node(s.key, s.type, Append(s.childNodes, Node(s.key \o <<Len(s.childNodes) + 1>>, t, <<>>)))]])

\* A top-level node (with its children) is removed.
RemoveNode ==
  \E i \in 1..Len(collection.top) :
    RenderWith([top |-> RemoveAt(collection.top, i)])

NextMenu ==
  \/ AppendNode
  \/ AppendChild
  \/ RemoveNode

\* ========================================================= MenuItemInner

SelectionModes == {"none", "single", "multiple"}
Hrefs == {None, Some(""), Some("/docs")}

\* JavaScript truthiness of an optional string: undefined and '' are falsy.
Truthy(opt) == opt # None /\ opt[1] # ""

\* `flag || undefined`, the value of a boolean data attribute.
DataFlag(flag) == IF flag THEN Some(TRUE) ELSE None

\* let ElementType = props.href ? 'a' : 'div'
ElementType_AnyHref(props) == IF props.href # None THEN "a" ELSE "div"
ElementType(props) == IF Truthy(props.href) THEN "a" ELSE "div"

\* data-selection-mode={selectionMode === 'none' ? undefined : selectionMode}
DataSelectionMode_Always(mode) == Some(mode)
DataSelectionMode(mode) == IF mode = "none" THEN None ELSE Some(mode)

\* isHovered: states.isFocused, and data-hovered={states.isFocused || undefined}
HoveredOf_Pointer(states) == pointerOver
HoveredOf(states) == states.isFocused

\* What MenuItemInner returns for an item with these props, under a tree state
\* with this selection mode, given the states of useMenuItem and useFocusRing.
MenuItemInner(props, mode, states, focusVisible) ==
  [ elementType |-> ElementType(props),
    values |-> [ isFocused |-> states.isFocused,
                 isSelected |-> states.isSelected,
                 isPressed |-> states.isPressed,
                 isDisabled |-> states.isDisabled,
                 isHovered |-> HoveredOf(states),
                 isFocusVisible |-> focusVisible,
                 selectionMode |-> mode ],
    dataDisabled |-> DataFlag(states.isDisabled),
    dataHovered |-> DataFlag(HoveredOf(states)),
    dataFocused |-> DataFlag(states.isFocused),
    dataFocusVisible |-> DataFlag(focusVisible),
    dataPressed |-> DataFlag(states.isPressed),
    dataSelected |-> DataFlag(states.isSelected),
    dataSelectionMode |-> DataSelectionMode(mode) ]

NoStates == [isFocused |-> FALSE, isSelected |-> FALSE, isPressed |-> FALSE, isDisabled |-> FALSE]

ItemInit ==
  /\ href \in Hrefs
  /\ selectionMode \in SelectionModes
  /\ itemStates = NoStates
  /\ isFocusVisible = FALSE
  /\ pointerOver = FALSE
  /\ itemOut = MenuItemInner([href |-> href], selectionMode, NoStates, FALSE)

\* The hooks return these values and MenuItemInner renders with them.
ItemRender(h, mode, states, fv) ==
  /\ href' = h
  /\ selectionMode' = mode
  /\ itemStates' = states
  /\ isFocusVisible' = fv
  /\ itemOut' = MenuItemInner([href |-> h], mode, states, fv)
  /\ UNCHANGED <<triggerVars, menuVars>>

\* The item takes the focus, from the keyboard (focus visible) or not.
Focus ==
  /\ ~itemStates.isFocused /\ ~itemStates.isDisabled
  /\ \E fv \in BOOLEAN : ItemRender(href, selectionMode, [itemStates EXCEPT !.isFocused = TRUE], fv)
  /\ UNCHANGED pointerOver

Blur ==
  /\ itemStates.isFocused
  /\ ItemRender(href, selectionMode, [itemStates EXCEPT !.isFocused = FALSE], FALSE)
  /\ UNCHANGED pointerOver

\* The pointer enters the item; useMenuItem may move the focus to it.
HoverStart ==
  /\ ~pointerOver
  /\ pointerOver' = TRUE
  /\ \E f \in {itemStates.isFocused, ~itemStates.isDisabled} :
       ItemRender(href, selectionMode, [itemStates EXCEPT !.isFocused = f], isFocusVisible)

HoverEnd ==
  /\ pointerOver
  /\ pointerOver' = FALSE
  /\ ItemRender(href, selectionMode, itemStates, isFocusVisible)

PressStart ==
  /\ ~itemStates.isPressed /\ ~itemStates.isDisabled
  /\ ItemRender(href, selectionMode, [itemStates EXCEPT !.isPressed = TRUE], isFocusVisible)
  /\ UNCHANGED pointerOver

\* The press ends; in a selectable menu it toggles the item's selection.
PressEnd ==
  /\ itemStates.isPressed
  /\ ItemRender(href, selectionMode,
                [itemStates EXCEPT !.isPressed = FALSE,
                                   !.isSelected = IF selectionMode = "none" THEN FALSE ELSE ~@],
                isFocusVisible)
  /\ UNCHANGED pointerOver

\* The menu's selectionMode prop changes.
SetSelectionMode ==
  /\ \E m \in SelectionModes \ {selectionMode} :
       ItemRender(href, m, [itemStates EXCEPT !.isSelected = FALSE], isFocusVisible)
  /\ UNCHANGED pointerOver

\* The item becomes disabled (its key joins disabledKeys) or enabled again.
SetDisabled ==
  /\ ItemRender(href, selectionMode,
                IF itemStates.isDisabled
                THEN [itemStates EXCEPT !.isDisabled = FALSE]
                ELSE [itemStates EXCEPT !.isDisabled = TRUE, !.isPressed = FALSE, !.isFocused = FALSE],
                isFocusVisible)
  /\ UNCHANGED pointerOver

NextItem ==
  \/ Focus
  \/ Blur
  \/ HoverStart
  \/ HoverEnd
  \/ PressStart
  \/ PressEnd
  \/ SetSelectionMode
  \/ SetDisabled

\* ======================================================== specifications

Init == TriggerInit /\ MenuInit /\ ItemInit

Next == NextTrigger \/ NextMenu \/ NextItem

Spec == Init /\ [][Next]_vars

\* One component at a time, the other two left as first rendered.
InitTrigger == Init /\ portal = FALSE /\ href = None /\ selectionMode = "none"
InitMenu == Init /\ href = None /\ selectionMode = "none"
InitItem == Init /\ portal = FALSE

SpecTrigger == InitTrigger /\ [][NextTrigger]_vars
SpecMenu == InitMenu /\ [][NextMenu]_vars
SpecItem == InitItem /\ [][NextItem]_vars

\* ================================================================ claims

MenuTypes == {"section", "separator", "item"}
SectionTypes == {"header", "item"}

TopNodes(coll) == {coll.top[i] : i \in 1..Len(coll.top)}
TopSupported(coll) == \A n \in TopNodes(coll) : n.type \in MenuTypes
NodeSupported(n) == \A j \in 1..Len(n.childNodes) : n.childNodes[j].type \in SectionTypes
SectionsSupported(coll) == \A n \in TopNodes(coll) : n.type = "section" => NodeSupported(n)
FirstUnsupported(s, types) == s[Min({i \in 1..Len(s) : s[i].type \notin types})]
FirstBrokenSection(coll) ==
  coll.top[Min({i \in 1..Len(coll.top) : coll.top[i].type = "section" /\ ~NodeSupported(coll.top[i])})]
NodesOf(els) == [i \in 1..Len(els) |-> els[i].node]
\* The element a supported top-level node is rendered as.
RenderedAs(type) ==
  CASE type = "section" -> "section" [] type = "separator" -> "Separator" [] OTHER -> "MenuItemInner"
OneRenderingPerTopNode ==
  /\ Len(menuOut.containers) = 1
  /\ menuOut.thrown = None
  /\ NodesOf(menuOut.containers[1].children) = collection.top
  /\ \A i \in 1..Len(collection.top) :
       menuOut.containers[1].children[i].el = RenderedAs(collection.top[i].type)

\* C1: whenever the realized collection has no items (collection.size = 0), the
\* render of Menu holds no container and no tree state, nothing is thrown, and
\* the portal placeholder is output exactly when useCollection gave one; also
\* when an earlier collection was non-empty.
C1_EmptyCollectionRendersNoContainer ==
  Size(collection) = 0 =>
    /\ menuOut.containers = <<>>
    /\ menuOut.state = None
    /\ menuOut.made = {}
    /\ menuOut.thrown = None
    /\ menuOut.portal = portal
C1_Witness ==
  /\ Size(collection) = 0
  /\ everNonEmpty
  /\ portal
  /\ menuOut.portal

\* C2 (as claimed): a non-empty collection whose top-level nodes all have a
\* supported type is rendered as exactly one container holding one rendering
\* per top-level node, in iteration order.
C2_Original ==
  (Size(collection) > 0 /\ TopSupported(collection)) => OneRenderingPerTopNode

\* C2 (amended): a non-empty collection whose top-level nodes all have a
\* supported type, and whose sections hold only header and item children, is
\* rendered as exactly one container holding one rendering per top-level node,
\* in iteration order, none skipped or duplicated.
C2_OneContainerInOrder ==
  (Size(collection) > 0 /\ TopSupported(collection) /\ SectionsSupported(collection))
    => OneRenderingPerTopNode
C2_Witness ==
  /\ Len(collection.top) = 2
  /\ collection.top[1].type = "section"
  /\ Len(collection.top[1].childNodes) = 1
  /\ collection.top[2].type = "item"
  /\ Len(menuOut.containers) = 1
  /\ NodesOf(menuOut.containers[1].children) = collection.top

\* C3: the dispatch of MenuInner throws for a top-level node exactly when its
\* type is not section, separator or item, with the message "Unsupported node
\* type in Menu: " followed by the type; a render of a collection holding such a
\* node throws that message for the first such node and produces no container.
C3_UnsupportedTopLevelThrows ==
  /\ \A n \in TopNodes(collection) :
       /\ (MenuInnerChild(n).thrown # None) <=> (n.type \notin MenuTypes)
       /\ n.type \notin MenuTypes =>
            MenuInnerChild(n).thrown = Some("Unsupported node type in Menu: " \o n.type)
  /\ ~TopSupported(collection) =>
       /\ menuOut.thrown = Some("Unsupported node type in Menu: " \o FirstUnsupported(collection.top, MenuTypes).type)
       /\ menuOut.containers = <<>>
C3_Witness ==
  /\ Len(collection.top) = 2
  /\ collection.top[1].type = "item"
  /\ collection.top[2].type = "header"
  /\ menuOut.thrown = Some("Unsupported node type in Menu: header")
  /\ menuOut.containers = <<>>

\* C4: the dispatch of MenuSection throws for a child exactly when its type is
\* not header or item, with the message "Unsupported element type in Section: "
\* followed by the type; rendering a section that holds such a child throws that
\* message for its first such child, and so does the render of a menu whose
\* top-level nodes are supported, for the first such section.
C4_UnsupportedSectionChildThrows ==
  LET bad(c) == c.type \notin SectionTypes
      msg(s) == Some("Unsupported element type in Section: " \o FirstUnsupported(s.childNodes, SectionTypes).type)
  IN
  /\ \A s \in {n \in TopNodes(collection) : n.type = "section"} :
       /\ \A j \in 1..Len(s.childNodes) :
            (MenuSectionChild(s.childNodes[j]).thrown # None) <=> bad(s.childNodes[j])
       /\ (MenuSection(useTreeState(collection), s).thrown # None) <=> ~NodeSupported(s)
       /\ ~NodeSupported(s) => MenuSection(useTreeState(collection), s).thrown = msg(s)
  /\ (TopSupported(collection) /\ ~SectionsSupported(collection)) =>
       /\ menuOut.thrown = msg(FirstBrokenSection(collection))
       /\ menuOut.containers = <<>>
C4_Witness ==
  /\ Len(collection.top) = 2
  /\ collection.top[1].type = "item"
  /\ collection.top[2].type = "section"
  /\ Len(collection.top[2].childNodes) = 1
  /\ collection.top[2].childNodes[1].type = "separator"
  /\ menuOut.thrown = Some("Unsupported element type in Section: separator")

\* C5: while the trigger's element is attached and no resize notification is
\* waiting to be handled, the '--trigger-width' published in PopoverContext is
\* the element's offsetWidth followed by 'px', however many resizes came before.
C5_TriggerWidthCurrent ==
  (mounted = "attached" /\ ~resizePending) =>
    triggerOut.popover.triggerWidth = Some(Px(offsetWidth))
C5_Witness ==
  /\ mounted = "attached"
  /\ ~resizePending
  /\ resizeEvents >= 2
  /\ offsetWidth = 2
  /\ triggerOut.popover.triggerWidth = Some("2px")

\* C6: the rendered item's data-selection-mode is absent exactly when the tree
\* state's selection mode is "none", and otherwise holds the selection mode.
C6_DataSelectionMode ==
  /\ (itemOut.dataSelectionMode = None) <=> (selectionMode = "none")
  /\ selectionMode # "none" => itemOut.dataSelectionMode = Some(selectionMode)
C6_Witness ==
  /\ selectionMode = "multiple"
  /\ itemStates.isSelected
  /\ itemOut.dataSelectionMode = Some("multiple")

\* C7 (as claimed): an item with an href prop, whatever its value, is rendered
\* as 'a', and an item without one as 'div'.
C7_Original ==
  /\ href # None => itemOut.elementType = "a"
  /\ href = None => itemOut.elementType = "div"

\* C7 (amended): an item is rendered as 'a' exactly when its href is a
\* non-empty string, and as 'div' when href is absent or the empty string.
C7_AnchorIffNonEmptyHref ==
  /\ Truthy(href) => itemOut.elementType = "a"
  /\ ~Truthy(href) => itemOut.elementType = "div"
C7_Witness ==
  /\ href = Some("/docs")
  /\ itemStates.isFocused
  /\ itemOut.elementType = "a"

\* C8: every node a MenuItemInner element is made for in a render is a node of
\* the collection of the tree state published through MenuStateContext in that
\* render, and that collection is the one realized for the render.
C8_ItemsAreInStateCollection ==
  menuOut.made # {} =>
    /\ menuOut.state # None
    /\ menuOut.state[1].collection = collection
    /\ \A n \in menuOut.made : n \in AllNodes(menuOut.state[1].collection)
C8_Witness ==
  /\ everNonEmpty
  /\ Len(collection.top) = 2
  /\ collection.top[1] \in menuOut.made
  /\ collection.top[2].type = "section"
  /\ Len(collection.top[2].childNodes) = 1
  /\ collection.top[2].childNodes[1] \in menuOut.made

\* C9: the isHovered render value is the item's focused state and data-hovered
\* is present exactly when data-focused is, whatever the pointer does.
C9_HoveredIsFocused ==
  /\ itemOut.values.isHovered = itemStates.isFocused
  /\ itemOut.values.isHovered = itemOut.values.isFocused
  /\ (itemOut.dataHovered # None) <=> (itemOut.dataFocused # None)
  /\ (itemOut.dataFocused # None) <=> itemStates.isFocused
C9_Witness ==
  /\ pointerOver
  /\ ~itemStates.isFocused
  /\ itemStates.isPressed
  /\ itemOut.dataHovered = None
  /\ ~itemOut.values.isHovered

\* C10: the trigger is presented as pressed exactly when the menu is open, and
\* the state published through OverlayTriggerStateContext is the state of that
\* same render, so the two agree.
C10_PressedIffOpen ==
  /\ triggerOut.isPressed = isOpen
  /\ triggerOut.overlayTriggerState = useMenuTriggerState(isOpen)
  /\ triggerOut.isPressed = triggerOut.overlayTriggerState.isOpen
C10_Witness ==
  /\ isOpen
  /\ triggerOut.isPressed
  /\ triggerOut.overlayTriggerState.isOpen
  /\ resizeEvents >= 1

====
